---- MODULE Spec2Model ----
(***************************************************************************)
(* Model of modelicares/_io/dymola.py: the readers of Dymola-formatted     *)
(* result files (loadtxt, read, readsim with its parse_description, and    *)
(* readlin) and the Samples value type.                                    *)
(*                                                                         *)
(* Python strings are TLA+ strings (TLC evaluates Len, SubSeq and \o on    *)
(* them).  Floating-point data are modelled by integers; every scale       *)
(* factor of the model is an integer.  An exception is modelled by the     *)
(* name of the Python exception class the code raises.                     *)
(***************************************************************************)
EXTENDS Integers, Sequences, FiniteSets, TLC

VARIABLES
    description,   \* argument of parse_description
    parseOut,      \* what parse_description returned
    txt,           \* lines of a text file handed to loadtxt
    txtOut,        \* what loadtxt returned
    file,          \* the named matrices of a result file, as the container reader loads them
    second_value,  \* natu.units.s._value in the running configuration
    readOut,       \* what read(fname) returned or raised
    simOut,        \* what readsim(fname) returned or raised
    linOut         \* what readlin(fname) returned or raised

vars == <<description, parseOut, txt, txtOut, file, second_value, readOut, simOut, linOut>>

\* Value of a result variable before the call that sets it.
None == [exc |-> "not called"]

\* Value of an input variable in a specification that does not use it.
Unused == "unused"

(***************************************************************************)
(* Python string methods                                                   *)
(***************************************************************************)

\* Characters str.rstrip() removes when called without an argument.
Whitespace == {" ", "\t", "\n", "\r", "\f"}

\* s[i-1:i]: the character at (1-based) position i, "" outside the string.
CharAt(s, i) == IF i \in 1..Len(s) THEN SubSeq(s, i, i) ELSE ""

\* s.rstrip(chars): drop the trailing characters that are in chars.
RECURSIVE RStrip(_, _)
RStrip(s, chars) ==
    IF Len(s) > 0 /\ CharAt(s, Len(s)) \in chars
    THEN RStrip(SubSeq(s, 1, Len(s) - 1), chars)
    ELSE s

\* Whether sub occurs in s at (1-based) position i.
OccursAt(s, sub, i) ==
    /\ i + Len(sub) - 1 <= Len(s)
    /\ SubSeq(s, i, i + Len(sub) - 1) = sub

\* The first position from i upwards where sub occurs in s, 0 if none.
RECURSIVE FindFrom(_, _, _)
FindFrom(s, sub, i) ==
    IF i + Len(sub) - 1 > Len(s) THEN 0
    ELSE IF OccursAt(s, sub, i) THEN i
    ELSE FindFrom(s, sub, i + 1)

\* The last position from i downwards where sub occurs in s, 0 if none.
RECURSIVE RFindFrom(_, _, _)
RFindFrom(s, sub, i) ==
    IF i < 1 THEN 0
    ELSE IF OccursAt(s, sub, i) THEN i
    ELSE RFindFrom(s, sub, i - 1)

\* s.rfind(sub) + 1: the last position where sub occurs, 0 if none.
RFind(s, sub) == RFindFrom(s, sub, Len(s) - Len(sub) + 1)

\* s.find(sub) + 1: the first position where sub occurs, 0 if none.
Find(s, sub) == FindFrom(s, sub, 1)

\* s.replace(old, new) for a non-empty old: left to right, non-overlapping.
RECURSIVE Replace(_, _, _)
Replace(s, old, new) ==
    LET i == Find(s, old)
    IN  IF i = 0 THEN s
        ELSE SubSeq(s, 1, i - 1) \o new
             \o Replace(SubSeq(s, i + Len(old), Len(s)), old, new)

(***************************************************************************)
(* The unit engine (natu), an external collaborator.  Only what readsim    *)
(* reads of a unit is modelled: whether it has a scale factor (_value) or  *)
(* is a LambdaUnit (no _value, converted by _toquantity).                  *)
(***************************************************************************)

\* unit._value of the linear units of the model other than the coherent ones.
KiloValue == 1000

\* Offset a LambdaUnit adds in _toquantity (degC to K, whole kelvins).
LambdaOffset == 273

\* U._units(**Exponents(unit)): the unit a unit string denotes.
NatuUnit(unit) ==
    CASE unit = "degC" -> [kind |-> "lambda"]
      [] unit = "km"   -> [kind |-> "linear", value |-> KiloValue]
      [] unit = "s"    -> [kind |-> "linear", value |-> second_value]
      [] OTHER         -> [kind |-> "linear", value |-> 1]

\* unit._toquantity(n)._value of a LambdaUnit.
LambdaToQuantity(n) == n + LambdaOffset

(***************************************************************************)
(* readsim.parse_description                                               *)
(***************************************************************************)

\* The unit clause after normalisation, split at its last "|".
SplitUnit(clause) ==
    LET unit == Replace(Replace(clause, ".", "*"), "Ohm", "ohm")
        j    == RFind(unit, "|")
    IN  IF j = 0
        THEN [unit |-> unit, displayUnit |-> ""]
        ELSE [unit |-> SubSeq(unit, 1, j - 1),
              displayUnit |-> SubSeq(unit, j + 1, Len(unit))]

\* parse_description(description): the unit string handed to natu, the unit
\* natu makes of it, the display unit and the cleaned description.
ParseDescription(d) ==
    LET stripped == RStrip(d, {"]"})
        i        == RFind(stripped, "[")
        text     == IF i = 0 THEN stripped ELSE SubSeq(stripped, 1, i - 1)
        split    == IF i = 0
                    THEN [unit |-> "", displayUnit |-> ""]
                    ELSE SplitUnit(SubSeq(stripped, i + 1, Len(stripped)))
    IN  [unit_string  |-> split.unit,
         unit         |-> NatuUnit(split.unit),
         display_unit |-> IF split.displayUnit # "" THEN split.displayUnit
                          ELSE split.unit,
         description  |-> RStrip(text, Whitespace)]

\* Free-text parts, unit strings and display-unit strings of the descriptions
\* the parser is run on.
DescParts == {"", "R", "Resistance", "Capacitance", "plain description", "a b ", "i]"}
UnitParts == {"", "F", "Ohm", "kOhm", "V.s", "degC"}

Descriptions ==
    DescParts
    \cup {d \o " [" \o u \o "]" : d \in DescParts, u \in UnitParts}
    \cup {d \o " [" \o u \o "|" \o du \o "]" :
            d \in DescParts, u \in UnitParts, du \in UnitParts}

InitParse ==
    /\ description \in Descriptions
    /\ parseOut = None
    /\ txt = Unused /\ txtOut = None
    /\ file = Unused /\ second_value = 1
    /\ readOut = None /\ simOut = None /\ linOut = None

\* One call of parse_description.
Parse ==
    /\ parseOut = None
    /\ parseOut' = ParseDescription(description)
    /\ UNCHANGED <<description, txt, txtOut, file, second_value, readOut, simOut, linOut>>

NextParse == Parse

SpecParse == InitParse /\ [][NextParse]_vars

\* C5 (as claimed): for "<d> [<u>|<du>]" the parser returns d without its
\* trailing whitespace, u with "." written "*" and "Ohm" written "ohm", and du
\* exactly as written; without "|" the display unit is the unit; without a
\* bracket unit and display unit are empty and the description is unchanged.
C5_ParserAsClaimed ==
    parseOut # None =>
        /\ \A d \in DescParts, u \in UnitParts \ {""}, du \in UnitParts \ {""} :
              description = d \o " [" \o u \o "|" \o du \o "]" =>
                  /\ parseOut.description = RStrip(d, Whitespace)
                  /\ parseOut.unit_string = Replace(Replace(u, ".", "*"), "Ohm", "ohm")
                  /\ parseOut.display_unit = du
        /\ \A d \in DescParts, u \in UnitParts \ {""} :
              description = d \o " [" \o u \o "]" =>
                  /\ parseOut.description = RStrip(d, Whitespace)
                  /\ parseOut.unit_string = Replace(Replace(u, ".", "*"), "Ohm", "ohm")
                  /\ parseOut.display_unit = parseOut.unit_string
        /\ \A d \in {"R", "Resistance", "Capacitance", "plain description"} :
              description = d =>
                  /\ parseOut.description = d
                  /\ parseOut.unit_string = ""
                  /\ parseOut.display_unit = ""

(***************************************************************************)
(* Arrays.  A 2-D numeric array is [kind |-> "num", nr, nc, rows], rows a  *)
(* sequence of nr sequences of nc numbers; a character array is            *)
(* [kind |-> "char", nr, nc, rows], rows a sequence of nr strings of nc    *)
(* characters; a Python list of strings is [kind |-> "strs", list].        *)
(***************************************************************************)

Num(nr, nc, rows) == [kind |-> "num", nr |-> nr, nc |-> nc, rows |-> rows]

Strs(list) == [kind |-> "strs", list |-> list]

\* ndarray.T of a 2-D numeric array.
Transpose(m) ==
    Num(m.nc, m.nr, [c \in 1..m.nc |-> [r \in 1..m.nr |-> m.rows[r][c]]])

\* A dictionary is a function from its keys; d[k] = v adds or replaces.
EmptyDict == <<>>

DictSet(d, k, v) == (k :> v) @@ d

(***************************************************************************)
(* loadtxt                                                                 *)
(***************************************************************************)

Digits == "0123456789"

\* The character classes of the regular expression: \w, \d and the blank.
WordChars ==
    {"a", "b", "c", "d", "e", "f", "g", "h", "i", "j", "k", "l", "m", "n", "o",
     "p", "q", "r", "s", "t", "u", "v", "w", "x", "y", "z", "A", "B", "C", "D",
     "E", "F", "G", "H", "I", "J", "K", "L", "M", "N", "O", "P", "Q", "R", "S",
     "T", "U", "V", "W", "X", "Y", "Z", "0", "1", "2", "3", "4", "5", "6", "7",
     "8", "9", "_"}
DigitChars == {"0", "1", "2", "3", "4", "5", "6", "7", "8", "9"}
Blank == {" "}

\* The value of a decimal digit.
DigitValue(c) == CHOOSE d \in 0..9 : CharAt(Digits, d + 1) = c

\* Position after the longest run, from position p on, of characters of the
\* class (a greedy "x*" of the regular expression).
RECURSIVE SkipClass(_, _, _)
SkipClass(s, p, class) ==
    IF p <= Len(s) /\ CharAt(s, p) \in class
    THEN SkipClass(s, p + 1, class)
    ELSE p

\* int(digits) for a non-empty string of decimal digits.
RECURSIVE ToInt(_)
ToInt(digits) ==
    IF Len(digits) = 0 THEN 0
    ELSE 10 * ToInt(SubSeq(digits, 1, Len(digits) - 1))
         + DigitValue(CharAt(digits, Len(digits)))

\* SPLIT_DEFINITION(line): the match of
\*   (\w*) *(\w*) *\( *(\d*) *, *(\d*) *\)
\* at the start of line, as [ok, type_string, name, nrows, ncols].
SplitDefinition(line) ==
    LET a1 == SkipClass(line, 1, WordChars)
        a2 == SkipClass(line, a1, Blank)
        a3 == SkipClass(line, a2, WordChars)
        a4 == SkipClass(line, a3, Blank)
        b1 == SkipClass(line, a4 + 1, Blank)
        b2 == SkipClass(line, b1, DigitChars)
        b3 == SkipClass(line, b2, Blank)
        c1 == SkipClass(line, b3 + 1, Blank)
        c2 == SkipClass(line, c1, DigitChars)
        c3 == SkipClass(line, c2, Blank)
    IN  IF /\ CharAt(line, a4) = "("
           /\ CharAt(line, b3) = ","
           /\ CharAt(line, c3) = ")"
        THEN [ok |-> TRUE,
              type_string |-> SubSeq(line, 1, a1 - 1),
              name  |-> SubSeq(line, a2, a3 - 1),
              nrows |-> SubSeq(line, b1, b2 - 1),
              ncols |-> SubSeq(line, c1, c2 - 1)]
        ELSE [ok |-> FALSE]

\* line.split('#')[0]: the line up to its first "#".
StripComment(line) ==
    LET i == Find(line, "#")
    IN  IF i = 0 THEN line ELSE SubSeq(line, 1, i - 1)

\* np.fromstring(text, sep=' ') on decimal integers: the numbers separated
\* by whitespace, up to the first token that is not a number.
RECURSIVE FromString(_, _)
FromString(text, p) ==
    LET q == IF p <= Len(text) /\ CharAt(text, p) \in Whitespace
             THEN p + 1 ELSE p
        d == IF CharAt(text, p) = "-" THEN p + 1 ELSE p
        e == SkipClass(text, d, DigitChars)
        n == ToInt(SubSeq(text, d, e - 1))
    IN  IF q # p THEN FromString(text, q)
        ELSE IF e = d THEN <<>>
        ELSE <<IF d # p THEN 0 - n ELSE n>> \o FromString(text, e)

\* np.array(list of 1-D arrays): 2-D when the rows have one length.
ArrayOfRows(rows) ==
    IF rows = <<>> THEN Num(0, 0, <<>>)
    ELSE IF \A r \in 1..Len(rows) : Len(rows[r]) = Len(rows[1])
    THEN Num(Len(rows), Len(rows[1]), rows)
    ELSE [kind |-> "object", rows |-> rows]

\* PARSERS[type_string](f.next, rows) on the nrows lines after the definition.
ParseBlock(type_string, body) ==
    LET numbers == [r \in 1..Len(body) |-> FromString(StripComment(body[r]), 1)]
        arr     == ArrayOfRows(numbers)
    IN  CASE type_string = "char" ->
                Strs([r \in 1..Len(body) |-> RStrip(body[r], Whitespace)])
          [] type_string = "float" ->
                IF arr.kind = "num" THEN Transpose(arr) ELSE arr
          [] type_string = "int" -> arr

\* util.next_nonblank(f): the position of the next line, from p on, that is
\* not blank; beyond the last line at the end of the file.
RECURSIVE NextNonblank(_, _)
NextNonblank(lines, p) ==
    IF p <= Len(lines) /\ RStrip(lines[p], Whitespace) = ""
    THEN NextNonblank(lines, p + 1)
    ELSE p

\* The loop of loadtxt from line p on, with variable_names = None.
RECURSIVE LoadBlocks(_, _, _)
LoadBlocks(lines, p, data) ==
    LET q   == NextNonblank(lines, p)
        def == SplitDefinition(lines[q])
        n   == ToInt(def.nrows)
    IN  IF q > Len(lines) THEN [exc |-> "ok", data |-> data]
        ELSE IF ~def.ok THEN [exc |-> "AttributeError"]
        ELSE IF def.nrows = "" THEN [exc |-> "ValueError"]
        ELSE IF def.type_string \notin {"char", "float", "int"}
        THEN [exc |-> "KeyError"]
        ELSE IF q + n > Len(lines) THEN [exc |-> "ValueError"]
        ELSE LoadBlocks(lines, q + n + 1,
                        DictSet(data, def.name,
                                ParseBlock(def.type_string, SubSeq(lines, q + 1, q + n))))

\* loadtxt(file_name, variable_names=None, skip_header).
LoadTxt(lines, skip_header) ==
    IF skip_header > Len(lines) THEN [exc |-> "StopIteration"]
    ELSE LoadBlocks(lines, skip_header + 1, EmptyDict)

\* Largest declared row and column counts of the text blocks the scanner is
\* run on.
MaxTxtRows == 2
MaxTxtCols == 2

\* str(n) of an integer.
RECURSIVE ToStr(_)
ToStr(n) ==
    IF n < 0 THEN "-" \o ToStr(0 - n)
    ELSE IF n < 10 THEN CharAt(Digits, n + 1)
    ELSE ToStr(n \div 10) \o CharAt(Digits, (n % 10) + 1)

\* The number written in column c of data line r of a block.
Cell(r, c) == 10 * r + c

\* Data line r of a block with ncols numbers: the numbers separated by blanks,
\* then the comment, then the end of the line.
RECURSIVE Numbers(_, _, _)
Numbers(r, c, ncols) ==
    IF c > ncols THEN ""
    ELSE " " \o ToStr(Cell(r, c)) \o Numbers(r, c + 1, ncols)

DataLine(r, ncols, comment) == Numbers(r, 1, ncols) \o comment \o "\n"

\* A text file of one block: a header line, possibly a blank line, the
\* definition and its data lines, the last `cut` of them missing.
TxtLines(type_string, name, nrows, ncols, comment, blank, cut) ==
    <<"#1\n">>
    \o (IF blank THEN <<" \n">> ELSE <<>>)
    \o <<type_string \o " " \o name \o " (" \o ToStr(nrows) \o "," \o ToStr(ncols) \o ")\n">>
    \o [r \in 1..(nrows - cut) |-> DataLine(r, ncols, comment)]

TxtTypes == {"float", "int", "char", "double"}
TxtNames == {"x", "data_1"}
TxtComments == {"", " # c"}

InitTxt ==
    /\ \E t \in TxtTypes, n \in TxtNames, nrows \in 1..MaxTxtRows,
          ncols \in 1..MaxTxtCols, cm \in TxtComments, blank \in BOOLEAN,
          cut \in 0..1 :
          txt = [lines |-> TxtLines(t, n, nrows, ncols, cm, blank, cut),
                 skip_header |-> 1]
    /\ txtOut = None
    /\ description = Unused /\ parseOut = None
    /\ file = Unused /\ second_value = 1
    /\ readOut = None /\ simOut = None /\ linOut = None

\* One call of loadtxt.
Scan ==
    /\ txtOut = None
    /\ txtOut' = LoadTxt(txt.lines, txt.skip_header)
    /\ UNCHANGED <<description, parseOut, txt, file, second_value, readOut, simOut, linOut>>

NextTxt == Scan

SpecTxt == InitTxt /\ [][NextTxt]_vars

\* C7 (as claimed): for a block "float <name> (<nrows>, <ncols>)" loadtxt
\* returns under <name> a matrix of nrows rows and ncols columns whose row r
\* holds the numbers of data line r, the comments removed.
C7_FloatBlockAsClaimed ==
    txtOut # None =>
        \A n \in TxtNames, nrows \in 1..MaxTxtRows, ncols \in 1..MaxTxtCols,
           cm \in TxtComments, blank \in BOOLEAN :
            txt.lines = TxtLines("float", n, nrows, ncols, cm, blank, 0) =>
                /\ txtOut.exc = "ok"
                /\ txtOut.data[n] =
                     Num(nrows, ncols,
                         [r \in 1..nrows |-> [c \in 1..ncols |-> Cell(r, c)]])

(***************************************************************************)
(* read                                                                    *)
(*                                                                         *)
(* A result file is [kind |-> "mat", data] (what scipy's loadmat returns   *)
(* with chars_as_strings=False: numeric and character arrays by name),     *)
(* [kind |-> "txt", lines] (a file loadmat rejects with ValueError, read   *)
(* by loadtxt) or [kind |-> "missing"] (a file that cannot be opened).     *)
(* read is called with constants_only = False.                             *)
(***************************************************************************)

Raise(exc, what) == [exc |-> exc, what |-> what]

Char(nr, nc, rows) == [kind |-> "char", nr |-> nr, nc |-> nc, rows |-> rows]

\* The characters of column c of the rows from r on, top to bottom.
RECURSIVE CharColumn(_, _, _)
CharColumn(rows, r, c) ==
    IF r > Len(rows) THEN ""
    ELSE CharAt(rows[r], c) \o CharColumn(rows, r + 1, c)

\* ndarray.T of a character array.
CharTranspose(m) == Char(m.nc, m.nr, [c \in 1..m.nc |-> CharColumn(m.rows, 1, c)])

\* get_strings(str_arr): the rows as strings without their trailing blanks
\* (the files of the model pad with blanks, not with NUL, and are ASCII).
GetStrings(m) == [r \in 1..m.nr |-> RStrip(m.rows[r], {" "})]

\* Lines 233-242: whether the binary data is transposed, from Aclass[3].
Orientation(Aclass) ==
    IF Len(Aclass) < 4 THEN [exc |-> "ok", transposed |-> FALSE]
    ELSE IF Aclass[4] = "binTrans" THEN [exc |-> "ok", transposed |-> TRUE]
    ELSE IF Aclass[4] = "binNormal" THEN [exc |-> "ok", transposed |-> FALSE]
    ELSE Raise("AssertionError", "orientation not recognized")

\* Lines 245-249: undo the transposition and convert character arrays.
Reorient(value, transposed) ==
    IF value.kind = "char"
    THEN Strs(GetStrings(IF transposed THEN CharTranspose(value) ELSE value))
    ELSE IF transposed THEN Transpose(value) ELSE value

\* Lines 253-255: in a text file only the data_<i> matrices are transposed.
ReorientTxt(name, value) ==
    IF OccursAt(name, "data_", 1) THEN Transpose(value) ELSE value

\* read(fname) once the file is loaded as `data`.
ReadLoaded(data, binary) ==
    IF "Aclass" \notin DOMAIN data
    THEN Raise("TypeError", "the Aclass variable is missing")
    ELSE IF binary
    THEN LET Aclass == GetStrings(data["Aclass"])
             o      == Orientation(Aclass)
         IN  IF o.exc # "ok" THEN o
             ELSE [exc |-> "ok", Aclass |-> Aclass,
                   data |-> [n \in DOMAIN data \ {"Aclass"} |->
                                Reorient(data[n], o.transposed)]]
    ELSE [exc |-> "ok", Aclass |-> data["Aclass"].list,
          data |-> [n \in DOMAIN data \ {"Aclass"} |-> ReorientTxt(n, data[n])]]

\* Lines 217-219 and on: read(fname) once loadtxt has returned `loaded`.
ReadText(loaded) ==
    IF loaded.exc # "ok" THEN loaded ELSE ReadLoaded(loaded.data, FALSE)

\* read(fname, constants_only=False).
Read(f) ==
    CASE f.kind = "missing" -> Raise("IOError", "could not be opened")
      [] f.kind = "mat" -> ReadLoaded(f.data, TRUE)
      [] f.kind = "txt" -> ReadText(LoadTxt(f.lines, 1))

(***************************************************************************)
(* Python and numpy indexing                                               *)
(***************************************************************************)

\* The 0-based position seq[i] denotes in a sequence of n items: a negative
\* index counts from the end.
PyIndex(i, n) == IF i < 0 THEN i + n ELSE i

\* Whether seq[i] exists (no IndexError).
PyIndexOk(i, n) == PyIndex(i, n) \in 0..(n - 1)

\* The bounds of the slice [start:stop] of n items, clipped as Python does.
PyClip(i, n) ==
    IF i < 0 THEN (IF i + n < 0 THEN 0 ELSE i + n)
    ELSE (IF i > n THEN n ELSE i)

\* seq[start:stop] as 0-based bounds lo..hi-1 (empty when hi <= lo).
\* m[r0:r1, c0:c1] of a 2-D numeric array.
Slice(m, r0, r1, c0, c1) ==
    LET rl == PyClip(r0, m.nr)
        rh == PyClip(r1, m.nr)
        cl == PyClip(c0, m.nc)
        ch == PyClip(c1, m.nc)
        nr == IF rh > rl THEN rh - rl ELSE 0
        nc == IF ch > cl THEN ch - cl ELSE 0
    IN  Num(nr, nc, [r \in 1..nr |-> [c \in 1..nc |-> m.rows[rl + r][cl + c]]])

\* list[start:stop] of a Python list.
ListSlice(list, start, stop) ==
    LET lo == PyClip(start, Len(list))
        hi == PyClip(stop, Len(list))
    IN  IF hi > lo THEN SubSeq(list, lo + 1, hi) ELSE <<>>

\* m[:, c] as a copy: the values of 0-based column c.
Column(m, c) == [r \in 1..m.nr |-> m.rows[r][c + 1]]

\* m[:, c] *= k: the in-place scaling of 0-based column c.
ScaleColumn(m, c, k) ==
    Num(m.nr, m.nc,
        [r \in 1..m.nr |-> [j \in 1..m.nc |->
            IF j = c + 1 THEN m.rows[r][j] * k ELSE m.rows[r][j]]])

(***************************************************************************)
(* Samples and Variable                                                    *)
(*                                                                         *)
(* A numpy view is modelled by what it refers to: [kind |-> "view", traj,  *)
(* col] is column col (0-based) of trajectories[traj] (0-based), and reads *)
(* whatever that storage holds; [kind |-> "array", vals] owns its values.  *)
(***************************************************************************)

View(traj, col) == [kind |-> "view", traj |-> traj, col |-> col]

Array(vals) == [kind |-> "array", vals |-> vals]

Samples(times, signed_values, negated) ==
    [times |-> times, signed_values |-> signed_values, negated |-> negated]

Variable(samples, dimension, display_unit, desc) ==
    [samples |-> samples, dimension |-> dimension,
     display_unit |-> display_unit, description |-> desc]

\* unit.dimension, which natu derives from the unit string.
NatuDimension(unit_string) == <<"dimension", unit_string>>

\* The values an array or view holds, given the storage views refer to.
Deref(a, trajectories) ==
    IF a.kind = "view" THEN Column(trajectories[a.traj + 1], a.col) ELSE a.vals

Negate(vals) == [r \in 1..Len(vals) |-> 0 - vals[r]]

\* Samples.values: the signed values, negated upon access if negated is set.
Values(samples, trajectories) ==
    LET sv == Deref(samples.signed_values, trajectories)
    IN  IF samples.negated THEN Negate(sv) ELSE sv

(***************************************************************************)
(* readsim                                                                 *)
(***************************************************************************)

\* CheckSimKind without its second check: only a linearization result is
\* turned away.
CheckSimKindLinearOnly(Aclass) ==
    IF Len(Aclass) < 1 THEN Raise("IndexError", "Aclass[0]")
    ELSE IF Aclass[1] = "AlinearSystem"
    THEN Raise("AssertionError", "is a linearization result")
    ELSE [exc |-> "ok"]

\* Lines 316-321: the check of the type of results; "ok" or the error.
CheckSimKind(Aclass) ==
    IF Len(Aclass) < 1 THEN Raise("IndexError", "Aclass[0]")
    ELSE IF Aclass[1] = "AlinearSystem"
    THEN Raise("AssertionError", "is a linearization result")
    ELSE IF Aclass[1] # "Atrajectory"
    THEN Raise("AssertionError", "is not a simulation or linearization result")
    ELSE [exc |-> "ok"]

\* Lines 335-343: collect data_1, data_2, ... up to the first missing one,
\* applying the value of the unit second to each time column in place.
RECURSIVE ExtractTrajectories(_, _, _)
ExtractTrajectories(data, i, trajectories) ==
    LET key == "data_" \o ToStr(i)
    IN  IF key \notin DOMAIN data
        THEN [exc |-> "ok", trajectories |-> trajectories]
        ELSE IF second_value # 1 /\ data[key].nc = 0
        THEN Raise("IndexError", "time column") @@ [trajectories |-> trajectories \o <<data[key]>>]
        ELSE ExtractTrajectories(data, i + 1,
                trajectories \o <<IF second_value # 1
                                  THEN ScaleColumn(data[key], 0, second_value)
                                  ELSE data[key]>>)

\* Resolve without the conversion of the column to 0-based.
ResolveOneBased(data_set, sign_col, trajectories) ==
    LET negated == sign_col < 0
        n       == Len(trajectories)
        t       == PyIndex(data_set - 1, n)
        colraw  == IF negated THEN 0 - sign_col ELSE sign_col
    IN  IF ~PyIndexOk(data_set - 1, n)
        THEN Raise("IndexError", "list index out of range")
        ELSE IF ~PyIndexOk(colraw, trajectories[t + 1].nc)
        THEN Raise("IndexError", "column index out of bounds")
        ELSE [exc |-> "ok", negated |-> negated, traj |-> t,
              col |-> PyIndex(colraw, trajectories[t + 1].nc)]

\* Lines 351-354: the trajectory and the column a dataInfo row refers to, as
\* Python resolves the indices.
Resolve(data_set, sign_col, trajectories) ==
    LET negated == sign_col < 0
        n       == Len(trajectories)
        t       == PyIndex(data_set - 1, n)
        colraw  == (IF negated THEN 0 - sign_col ELSE sign_col) - 1
    IN  IF ~PyIndexOk(data_set - 1, n)
        THEN Raise("IndexError", "list index out of range")
        ELSE IF ~PyIndexOk(colraw, trajectories[t + 1].nc)
        THEN Raise("IndexError", "column index out of bounds")
        ELSE [exc |-> "ok", negated |-> negated, traj |-> t,
              col |-> PyIndex(colraw, trajectories[t + 1].nc)]

\* Lines 355-364 for a unit with a scale factor: the in-place scaling.
ScaleInPlace(trajectories, t, c, value) ==
    IF value # 1
    THEN [k \in 1..Len(trajectories) |->
            IF k = t + 1 THEN ScaleColumn(trajectories[k], c, value)
            ELSE trajectories[k]]
    ELSE trajectories

\* Lines 355-364 for a LambdaUnit: the negation applied, then the conversion.
LambdaValues(vals, negated) ==
    LET signed == IF negated THEN Negate(vals) ELSE vals
    IN  [r \in 1..Len(signed) |-> LambdaToQuantity(signed[r])]

\* Lines 349-366 for one row: the Variable appended and the storage after it.
CreateVariable(desc, data_set, sign_col, trajectories) ==
    LET p == ParseDescription(desc)
        r == Resolve(data_set, sign_col, trajectories)
    IN  IF r.exc # "ok" THEN r
        ELSE IF p.unit.kind = "linear"
        THEN [exc |-> "ok",
              trajectories |-> ScaleInPlace(trajectories, r.traj, r.col, p.unit.value),
              variable |-> Variable(Samples(View(r.traj, 0), View(r.traj, r.col), r.negated),
                                    NatuDimension(p.unit_string), p.display_unit,
                                    p.description)]
        ELSE [exc |-> "ok",
              trajectories |-> trajectories,
              variable |-> Variable(Samples(View(r.traj, 0),
                                            Array(LambdaValues(Column(trajectories[r.traj + 1], r.col),
                                                               r.negated)),
                                            FALSE),
                                    NatuDimension(p.unit_string), p.display_unit,
                                    p.description)]

\* Lines 346-366: the loop over zip(data['description'], data['dataInfo'][:, 0:2])
\* from row i on.
RECURSIVE CreateVariables(_, _, _, _, _)
CreateVariables(descs, info, i, trajectories, variables) ==
    LET n == IF Len(descs) < info.nr THEN Len(descs) ELSE info.nr
        v == CreateVariable(descs[i], info.rows[i][1], info.rows[i][2], trajectories)
    IN  IF i > n
        THEN [exc |-> "ok", trajectories |-> trajectories, variables |-> variables]
        ELSE IF info.nc < 2
        THEN Raise("ValueError", "unpack a dataInfo row") @@ [trajectories |-> trajectories]
        ELSE IF v.exc # "ok" THEN v @@ [trajectories |-> trajectories]
        ELSE CreateVariables(descs, info, i + 1, v.trajectories,
                             variables \o <<v.variable>>)

\* dict(zip(names, variables)): a later pair replaces an earlier one of the
\* same name.
DictZip(names, variables) ==
    LET n == IF Len(names) < Len(variables) THEN Len(names) ELSE Len(variables)
    IN  [nm \in {names[i] : i \in 1..n} |->
            variables[CHOOSE i \in 1..n :
                        names[i] = nm /\ \A j \in 1..n : names[j] = nm => j <= i]]

\* Lines 367-372: the mapping returned once the loop has ended as cv.
ReturnVariables(names, cv) ==
    IF cv.exc # "ok" THEN cv
    ELSE IF cv.variables = <<>>
    THEN Raise("UnboundLocalError", "times") @@ [trajectories |-> cv.trajectories]
    ELSE [exc |-> "ok",
          trajectories |-> cv.trajectories,
          emitted |-> cv.variables,
          variables |->
              DictSet(DictZip(names, cv.variables), "Time",
                      Variable(Samples(cv.variables[Len(cv.variables)].samples.times,
                                       cv.variables[Len(cv.variables)].samples.times,
                                       FALSE),
                               NatuDimension("s"), "s", "Time"))]

\* Lines 346-372: the variables, once the trajectories are extracted as ex.
ReadVariables(data, ex) ==
    IF ex.exc # "ok" THEN ex
    ELSE IF "description" \notin DOMAIN data
    THEN Raise("KeyError", "description") @@ [trajectories |-> ex.trajectories]
    ELSE IF "dataInfo" \notin DOMAIN data
    THEN Raise("KeyError", "dataInfo") @@ [trajectories |-> ex.trajectories]
    ELSE ReturnVariables(data["name"].list,
                         CreateVariables(data["description"].list, data["dataInfo"],
                                         1, ex.trajectories, <<>>))

\* Lines 330-372: schema 1.1.
ReadSim11(data) ==
    IF "name" \notin DOMAIN data
    THEN Raise("KeyError", "name") @@ [trajectories |-> <<>>]
    ELSE ReadVariables(data, ExtractTrajectories(data, 1, <<>>))

\* Lines 374-379: schema 1.0.  The time column is multiplied by s._value,
\* and the module defines no name s (it imports natu's s as second).
ReadSim10(data) ==
    IF "data" \notin DOMAIN data
    THEN Raise("KeyError", "data") @@ [trajectories |-> <<>>]
    ELSE IF data["data"].nc = 0
    THEN Raise("IndexError", "time column") @@ [trajectories |-> <<>>]
    ELSE Raise("NameError", "s") @@ [trajectories |-> <<>>]

\* readsim(fname) after read returned (data, Aclass).
AssembleSim(data, Aclass) ==
    LET kind == CheckSimKind(Aclass)
    IN  IF kind.exc # "ok" THEN kind @@ [trajectories |-> <<>>]
        ELSE IF Len(Aclass) < 2
        THEN Raise("IndexError", "Aclass[1]") @@ [trajectories |-> <<>>]
        ELSE IF Aclass[2] = "1.1" THEN ReadSim11(data)
        ELSE IF Aclass[2] = "1.0" THEN ReadSim10(data)
        ELSE Raise("AssertionError", "version is not supported")
             @@ [trajectories |-> <<>>]

\* readsim(fname) once read(fname) has returned or raised r.
ReadSimResult(r) ==
    IF r.exc # "ok" THEN r @@ [trajectories |-> <<>>]
    ELSE AssembleSim(r.data, r.Aclass)

\* readsim(fname, constants_only=False).
ReadSimFile(f) == ReadSimResult(Read(f))

(***************************************************************************)
(* readlin                                                                 *)
(***************************************************************************)

\* Lines 451-456: the check of the type of results; "ok" or the error.
CheckLinKind(Aclass) ==
    IF Len(Aclass) < 1 THEN Raise("IndexError", "Aclass[0]")
    ELSE IF Aclass[1] = "Atrajectory"
    THEN Raise("AssertionError", "is a simulation result")
    ELSE IF Aclass[1] # "AlinearSystem"
    THEN Raise("AssertionError", "is not a simulation or linearization result")
    ELSE [exc |-> "ok"]

\* The nested list [[]]: one row without entries.
EmptyNested == Num(1, 0, <<<<>>>>)

\* Lines 465-468: the blocks handed to control.matlab.ss.
BlockA(ABCD, nx, nu, ny) ==
    IF nx > 0 THEN Slice(ABCD, 0, nx, 0, nx) ELSE EmptyNested

BlockB(ABCD, nx, nu, ny) ==
    IF nx > 0 /\ nu > 0 THEN Slice(ABCD, 0, nx, nx, ABCD.nc) ELSE EmptyNested

BlockC(ABCD, nx, nu, ny) ==
    IF nx > 0 /\ ny > 0 THEN Slice(ABCD, nx, ABCD.nr, 0, nx) ELSE EmptyNested

BlockD(ABCD, nx, nu, ny) ==
    IF nu > 0 /\ ny > 0 THEN Slice(ABCD, nx, ABCD.nr, nx, ABCD.nc) ELSE EmptyNested

\* Lines 458-477.  The state-space container (control.matlab.ss) is an
\* external collaborator: the system is modelled by the blocks it is given.
AssembleLin(data, Aclass) ==
    LET kind == CheckLinKind(Aclass)
        ABCD == data["ABCD"]
        nx   == data["nx"].rows[1][1]
        nu   == ABCD.nc - nx
        ny   == ABCD.nr - nx
        xuyName == data["xuyName"].list
    IN  IF kind.exc # "ok" THEN kind
        ELSE IF "ABCD" \notin DOMAIN data THEN Raise("KeyError", "ABCD")
        ELSE IF "nx" \notin DOMAIN data THEN Raise("KeyError", "nx")
        ELSE IF data["nx"].nr < 1 THEN Raise("IndexError", "nx[0]")
        ELSE IF "xuyName" \notin DOMAIN data THEN Raise("KeyError", "xuyName")
        ELSE [exc |-> "ok",
              nx |-> nx, nu |-> nu, ny |-> ny,
              A |-> BlockA(ABCD, nx, nu, ny),
              B |-> BlockB(ABCD, nx, nu, ny),
              C |-> BlockC(ABCD, nx, nu, ny),
              D |-> BlockD(ABCD, nx, nu, ny),
              state_names  |-> ListSlice(xuyName, 0, nx),
              input_names  |-> ListSlice(xuyName, nx, nx + nu),
              output_names |-> ListSlice(xuyName, nx + nu, Len(xuyName))]

\* readlin(fname) once read(fname) has returned or raised r.
ReadLinResult(r) ==
    IF r.exc # "ok" THEN r ELSE AssembleLin(r.data, r.Aclass)

\* readlin(fname).
ReadLinFile(f) == ReadLinResult(Read(f))

(***************************************************************************)
(* Result files: what a writer of the format stores                        *)
(***************************************************************************)

RECURSIVE Blanks(_)
Blanks(n) == IF n <= 0 THEN "" ELSE " " \o Blanks(n - 1)

\* The character array holding the strings of list, one per row, padded
\* with blanks to the longest.
CharArray(list) ==
    LET w == IF list = <<>> THEN 0
             ELSE CHOOSE n \in {Len(list[i]) : i \in 1..Len(list)} :
                    \A i \in 1..Len(list) : Len(list[i]) <= n
    IN  Char(Len(list), w,
             [i \in 1..Len(list) |-> list[i] \o Blanks(w - Len(list[i]))])

\* A matrix as a binary file stores it: transposed in the binTrans layout.
Stored(value, trans) ==
    IF ~trans THEN value
    ELSE IF value.kind = "char" THEN CharTranspose(value)
    ELSE Transpose(value)

\* The binary file with the given Aclass lines and matrices (strings as
\* lists), every matrix but Aclass stored in the given layout.
MatFile(Aclass, body, trans) ==
    [kind |-> "mat",
     data |-> ("Aclass" :> CharArray(Aclass))
              @@ [n \in DOMAIN body |->
                    Stored(IF body[n].kind = "strs" THEN CharArray(body[n].list)
                           ELSE body[n], trans)]]

\* The lines of a text block: the definition, then one line per row.
RECURSIVE NumberLine(_, _)
NumberLine(row, c) ==
    IF c > Len(row) THEN "\n" ELSE " " \o ToStr(row[c]) \o NumberLine(row, c + 1)

TxtBlock(name, value) ==
    IF value.kind = "strs"
    THEN <<"char " \o name \o "(" \o ToStr(Len(value.list)) \o ","
           \o ToStr(CharArray(value.list).nc) \o ")\n">>
         \o [i \in 1..Len(value.list) |-> value.list[i] \o "\n"]
         \o <<"\n">>
    ELSE <<(IF name \in {"dataInfo", "nx"} THEN "int " ELSE "float ")
           \o name \o "(" \o ToStr(value.nr) \o "," \o ToStr(value.nc) \o ")\n">>
         \o [r \in 1..value.nr |-> NumberLine(value.rows[r], 1)]
         \o <<"\n">>

RECURSIVE TxtBlocks(_, _)
TxtBlocks(body, names) ==
    IF names = {} THEN <<>>
    ELSE LET n == CHOOSE x \in names : TRUE
         IN  TxtBlock(n, body[n]) \o TxtBlocks(body, names \ {n})

\* The text file with the given Aclass lines and matrices.
TxtFile(Aclass, body) ==
    [kind |-> "txt",
     lines |-> <<"#1\n">> \o TxtBlock("Aclass", Strs(Aclass))
               \o TxtBlocks(body, DOMAIN body)]

\* Number of rows of data_<k> and the value it holds in row r, column c
\* (1-based); all values differ and none is 0.
SampleRows(k) == k + 1
Sample(k, r, c) == 100 * k + 10 * r + c

\* Largest number of data_<k> matrices, of their columns, and of variables
\* of the trajectory files the readers are run on.
MaxSets == 2
MaxCols == 2
MaxVars == 2

DataMatrix(k, ncols) ==
    Num(SampleRows(k), ncols,
        [r \in 1..SampleRows(k) |-> [c \in 1..ncols |-> Sample(k, r, c)]])

\* The matrices of a trajectory file of schema 1.1: names, descriptions,
\* dataInfo rows <<data_set, sign_col, 0, -1>> and data_1 .. data_<nsets>.
TrajBody(names, descs, refs, nsets, ncols) ==
    ("name" :> Strs(names))
    @@ ("description" :> Strs(descs))
    @@ ("dataInfo" :> Num(Len(refs), 4,
                          [i \in 1..Len(refs) |-> <<refs[i][1], refs[i][2], 0, 0 - 1>>]))
    @@ [n \in {"data_" \o ToStr(k) : k \in 1..nsets} |->
            DataMatrix(CHOOSE k \in 1..nsets : n = "data_" \o ToStr(k), ncols)]

\* The matrices of a linearization file: ABCD of the given shape, nx and
\* the names of states, inputs and outputs.
LinBody(nr, nc, nx) ==
    LET n == IF nr + nc - nx > 0 THEN nr + nc - nx ELSE 0
    IN  ("ABCD" :> Num(nr, nc, [r \in 1..nr |-> [c \in 1..nc |-> Cell(r, c)]]))
        @@ ("nx" :> Num(1, 1, <<<<nx>>>>))
        @@ ("xuyName" :> Strs([i \in 1..n |-> "v" \o ToStr(i)]))

(***************************************************************************)
(* The calls                                                               *)
(***************************************************************************)

\* One call of read(fname).
CallRead ==
    /\ readOut = None
    /\ readOut' = Read(file)
    /\ UNCHANGED <<description, parseOut, txt, txtOut, file, second_value, simOut, linOut>>

\* One call of readsim(fname).
CallReadSim ==
    /\ simOut = None
    /\ simOut' = ReadSimFile(file)
    /\ UNCHANGED <<description, parseOut, txt, txtOut, file, second_value, readOut, linOut>>

\* One call of readlin(fname).
CallReadLin ==
    /\ linOut = None
    /\ linOut' = ReadLinFile(file)
    /\ UNCHANGED <<description, parseOut, txt, txtOut, file, second_value, readOut, simOut>>

\* Values of natu's second in the configurations the readers are run in.
SecondValues == {1, 2}

(***************************************************************************)
(* Spec: the three readers on files of every result kind, version and      *)
(* layout tag, binary (stored in either layout) and text.                  *)
(***************************************************************************)

ResultKinds == {"Atrajectory", "AlinearSystem", "Aother"}
Versions == {"1.0", "1.1", "2.0"}
ThirdLines == {"", "binNormal", "binTrans", "bogus"}
FourthLines == {"binNormal", "binTrans", "bogus"}

AclassTails ==
    {<<>>} \cup {<<t>> : t \in ThirdLines}
    \cup {<<t, f>> : t \in ThirdLines, f \in FourthLines}

AclassLines == {<<k, v>> \o t : k \in ResultKinds, v \in Versions, t \in AclassTails}

\* The matrices of a simulation result (of both schemas) and of a
\* linearization result.
SimBody ==
    TrajBody(<<"a", "b">>, <<"x [km]", "plain">>, <<<<1, 2>>, <<2, 0 - 2>>>>, 2, 2)
    @@ ("names" :> Strs(<<"Time", "a">>))
    @@ ("data" :> DataMatrix(1, 2))

LinearBody == LinBody(3, 4, 2)

FormatFiles ==
    {MatFile(a, b, trans) : a \in AclassLines, b \in {SimBody, LinearBody},
                            trans \in BOOLEAN}
    \cup {TxtFile(a, b) : a \in AclassLines, b \in {SimBody, LinearBody}}
    \cup {[kind |-> "missing"],
          [kind |-> "mat", data |-> [n \in DOMAIN SimBody |-> SimBody[n]]],
          [kind |-> "txt",
           lines |-> TxtFile(<<"Atrajectory", "1.1">>, SimBody).lines
                     \o <<"double x(1,1)\n", " 1\n">>]}

Init ==
    /\ file \in FormatFiles
    /\ second_value \in SecondValues
    /\ readOut = None /\ simOut = None /\ linOut = None
    /\ description = Unused /\ parseOut = None
    /\ txt = Unused /\ txtOut = None

Next == CallRead \/ CallReadSim \/ CallReadLin

Spec == Init /\ [][Next]_vars

(***************************************************************************)
(* SpecSim: readsim on binary schema-1.1 files whose rows refer to any     *)
(* data set and column, in and out of range.                               *)
(***************************************************************************)

NamePool == {"a", "b", "Time"}
DescPool == {"plain", "x [km]", "T [degC]"}
DataSetRefs == 0..(MaxSets + 1)
SignColRefs == (0 - (MaxCols + 1))..(MaxCols + 1)

TrajectoryAclass == <<"Atrajectory", "1.1", "", "binNormal">>

InitSim ==
    /\ \E nv \in 0..MaxVars, nsets \in 0..MaxSets :
       \E names \in [1..nv -> NamePool], descs \in [1..nv -> DescPool],
          refs \in [1..nv -> DataSetRefs \X SignColRefs] :
          file = MatFile(TrajectoryAclass,
                         TrajBody(names, descs, refs, nsets, MaxCols), FALSE)
    /\ second_value \in SecondValues
    /\ readOut = None /\ simOut = None /\ linOut = None
    /\ description = Unused /\ parseOut = None
    /\ txt = Unused /\ txtOut = None

NextSim == CallReadSim

SpecSim == InitSim /\ [][NextSim]_vars

(***************************************************************************)
(* SpecLin: readlin on binary linearization files of every shape of ABCD   *)
(* and every nx.                                                           *)
(***************************************************************************)

\* Largest number of rows and of columns of ABCD.
MaxDim == 3

LinearAclass(trans) ==
    <<"AlinearSystem", "1.0", "", IF trans THEN "binTrans" ELSE "binNormal">>

InitLin ==
    /\ \E nr \in 0..MaxDim, nc \in 0..MaxDim, nx \in 0..MaxDim, trans \in BOOLEAN :
          file = MatFile(LinearAclass(trans), LinBody(nr, nc, nx), trans)
    /\ second_value = 1
    /\ readOut = None /\ simOut = None /\ linOut = None
    /\ description = Unused /\ parseOut = None
    /\ txt = Unused /\ txtOut = None

NextLin == CallReadLin

SpecLin == InitLin /\ [][NextLin]_vars

(***************************************************************************)
(* Properties of the readers under Spec                                    *)
(***************************************************************************)

\* The lines of the Aclass matrix of a file as the container reader or the
\* text scanner loads it; none when the file does not load or has no Aclass.
LoadedAclass(f) ==
    CASE f.kind = "mat" ->
            IF "Aclass" \in DOMAIN f.data THEN GetStrings(f.data["Aclass"]) ELSE <<>>
      [] f.kind = "txt" ->
            LET l == LoadTxt(f.lines, 1)
            IN  IF l.exc = "ok" /\ "Aclass" \in DOMAIN l.data
                THEN l.data["Aclass"].list ELSE <<>>
      [] OTHER -> <<>>

\* The matrices read returns for a binary file in the given layout.
InLayout(f, transposed) ==
    [n \in DOMAIN f.data \ {"Aclass"} |-> Reorient(f.data[n], transposed)]

\* C2 (as claimed): for a binary file read takes the layout from the third
\* Aclass line: absent, no matrix is transposed; "binTrans", every matrix is
\* transposed; present (not blank) and neither "binNormal" nor "binTrans",
\* read fails with the assertion error of an unrecognized orientation.
C2_LayoutFromThirdLine ==
    (readOut # None /\ file.kind = "mat" /\ "Aclass" \in DOMAIN file.data) =>
        LET A == LoadedAclass(file)
        IN  /\ Len(A) < 3 =>
                 readOut.exc = "ok" /\ readOut.data = InLayout(file, FALSE)
            /\ (Len(A) >= 3 /\ A[3] = "binTrans") =>
                 readOut.exc = "ok" /\ readOut.data = InLayout(file, TRUE)
            /\ (Len(A) >= 3 /\ A[3] \notin {"", "binNormal", "binTrans"}) =>
                 readOut.exc = "AssertionError"

\* C3 (as claimed): for a file whose Aclass version is neither "1.0" nor
\* "1.1", readsim and readlin both fail with the assertion error; neither
\* returns a result.
C3_UnsupportedVersionRejected ==
    LET A == LoadedAclass(file)
    IN  (Len(A) >= 2 /\ A[2] \notin {"1.0", "1.1"}) =>
            /\ simOut # None => simOut.exc = "AssertionError"
            /\ linOut # None => linOut.exc = "AssertionError"

KindMessages ==
    {"is a linearization result", "is a simulation result",
     "is not a simulation or linearization result"}

RECURSIVE NumSets(_, _)
NumSets(data, n) ==
    IF ("data_" \o ToStr(n + 1)) \in DOMAIN data THEN NumSets(data, n + 1) ELSE n

Abs(x) == IF x < 0 THEN 0 - x ELSE x

\* The rows of a trajectory file, given the matrices d read returns for it.
RowCount(d) == d["dataInfo"].nr
RowName(d, i) == d["name"].list[i]
RowUnit(d, i) == ParseDescription(d["description"].list[i]).unit
RowSet(d, i) == d["dataInfo"].rows[i][1]
RowSignCol(d, i) == d["dataInfo"].rows[i][2]
RowMatrix(d, i) == d["data_" \o ToStr(RowSet(d, i))]

\* Whether row i refers to a loaded data matrix and to a column it has.
InRange(d, i) ==
    /\ RowSet(d, i) \in 1..NumSets(d, 0)
    /\ Abs(RowSignCol(d, i)) \in 1..RowMatrix(d, i).nc

\* The Samples the claim expects of row i: views of column 0 and of column
\* |sign_col| - 1 of data_<data_set>, negated iff sign_col < 0.
ExpectedSamples(d, i) ==
    Samples(View(RowSet(d, i) - 1, 0),
            View(RowSet(d, i) - 1, Abs(RowSignCol(d, i)) - 1),
            RowSignCol(d, i) < 0)

\* Times and signed values of every returned variable have one length.
LengthsAgree ==
    \A n \in DOMAIN simOut.variables :
        Len(Deref(simOut.variables[n].samples.times, simOut.trajectories))
        = Len(Deref(simOut.variables[n].samples.signed_values, simOut.trajectories))

\* C1 (as claimed): every row with an in-range reference yields Samples with
\* negated = (sign_col < 0), times = column 0 and signed_values = column
\* |sign_col| - 1 of data_<data_set>; times and signed values have one length.
C1_SamplesAsClaimed ==
    simOut.exc = "ok" =>
        LET d == Read(file).data
        IN  /\ \A i \in 1..RowCount(d) :
                  InRange(d, i) => simOut.emitted[i].samples = ExpectedSamples(d, i)
            /\ LengthsAgree

\* C1 (amended): the same for every row whose unit has a scale factor; a row
\* with a LambdaUnit yields negated = FALSE, times = column 0 and signed
\* values of its own, as many as the matrix has rows.  A row's Variable is the
\* entry of its name unless a later row has the name or the name is "Time".
\* Times and signed values of every returned variable have one length.
C1_SamplesOfLinearUnits ==
    simOut.exc = "ok" =>
        LET d == Read(file).data
        IN  /\ \A i \in 1..RowCount(d) : InRange(d, i) =>
                  IF RowUnit(d, i).kind = "linear"
                  THEN simOut.emitted[i].samples = ExpectedSamples(d, i)
                  ELSE /\ simOut.emitted[i].samples.times = View(RowSet(d, i) - 1, 0)
                       /\ simOut.emitted[i].samples.negated = FALSE
                       /\ simOut.emitted[i].samples.signed_values.kind = "array"
                       /\ Len(simOut.emitted[i].samples.signed_values.vals)
                            = RowMatrix(d, i).nr
            /\ \A i \in 1..RowCount(d) :
                  (/\ RowName(d, i) # "Time"
                   /\ \A j \in (i + 1)..RowCount(d) : RowName(d, j) # RowName(d, i))
                      => simOut.variables[RowName(d, i)] = simOut.emitted[i]
            /\ LengthsAgree

\* Witness of C1: readsim returned for a file with an in-range row of a
\* scaled unit and negative sign_col and an in-range row of a LambdaUnit.
C1_Witness ==
    /\ simOut.exc = "ok"
    /\ LET d == Read(file).data
       IN  \E i \in 1..RowCount(d), j \in 1..RowCount(d) :
              /\ InRange(d, i) /\ RowUnit(d, i).kind = "linear" /\ RowSignCol(d, i) < 0
              /\ RowUnit(d, i).value # 1
              /\ InRange(d, j) /\ RowUnit(d, j).kind = "lambda" /\ RowSignCol(d, j) < 0

\* C8 (as claimed): when the name list holds a name twice, or the name
\* "Time", readsim fails instead of returning a mapping.
C8_DuplicateNamesRejected ==
    simOut # None =>
        LET d == Read(file).data
        IN  (\E i \in 1..RowCount(d) :
                \/ RowName(d, i) = "Time"
                \/ \E j \in 1..RowCount(d) : j # i /\ RowName(d, j) = RowName(d, i))
            => simOut.exc # "ok"

\* C9 (as claimed): when a row refers to a data set outside 1..N or to a
\* column outside 1..column count, readsim fails with an IndexError.
C9_BadReferenceRejected ==
    simOut # None =>
        LET d == Read(file).data
        IN  (\E i \in 1..RowCount(d) : ~InRange(d, i)) => simOut.exc = "IndexError"

\* C10 (as claimed): for every row with an in-range reference and a unit of
\* scale factor k, the returned values of a value column are (+/-1 by
\* sign_col) * k * the entries of the column as loaded, and the times are the
\* time column as loaded times the value of the second, whatever other rows
\* refer to the same column.
C10_ScaledOnce ==
    simOut.exc = "ok" =>
        LET d == Read(file).data
        IN  \A i \in 1..RowCount(d) :
                (InRange(d, i) /\ RowUnit(d, i).kind = "linear") =>
                    LET m == RowMatrix(d, i)
                        c == Abs(RowSignCol(d, i))
                        sign == IF RowSignCol(d, i) < 0 THEN 0 - 1 ELSE 1
                    IN  /\ c > 1 =>
                             Values(simOut.emitted[i].samples, simOut.trajectories)
                             = [r \in 1..m.nr |-> sign * RowUnit(d, i).value * m.rows[r][c]]
                        /\ Deref(simOut.emitted[i].samples.times, simOut.trajectories)
                             = [r \in 1..m.nr |-> second_value * m.rows[r][1]]

(***************************************************************************)
(* Properties of readlin under SpecLin                                     *)
(***************************************************************************)

\* C6 (as claimed): when nx, nu and ny are not negative, the blocks handed
\* to the linear system are A of nx x nx, B of nx x nu, C of ny x nx and
\* D of ny x nu, each the corresponding slice of ABCD.
C6_BlocksAsClaimed ==
    (linOut.exc = "ok" /\ linOut.nx >= 0 /\ linOut.nu >= 0 /\ linOut.ny >= 0) =>
        LET ABCD == Read(file).data["ABCD"]
            nx == linOut.nx
        IN  /\ linOut.A = Slice(ABCD, 0, nx, 0, nx)
            /\ linOut.B = Slice(ABCD, 0, nx, nx, ABCD.nc)
            /\ linOut.C = Slice(ABCD, nx, ABCD.nr, 0, nx)
            /\ linOut.D = Slice(ABCD, nx, ABCD.nr, nx, ABCD.nc)
            /\ linOut.A.nr = nx /\ linOut.A.nc = nx
            /\ linOut.B.nr = nx /\ linOut.B.nc = linOut.nu
            /\ linOut.C.nr = linOut.ny /\ linOut.C.nc = nx
            /\ linOut.D.nr = linOut.ny /\ linOut.D.nc = linOut.nu

====
